---- MODULE Spec2Model ----
(***************************************************************************)
(* imprev: a still image drawn as coloured terminal cells, re-rendered on  *)
(* SIGWINCH.  Model of src/src/main.rs:                                    *)
(*   - rgb_to_256_color   (u8 arithmetic, wrap and overflow made explicit) *)
(*   - scale_image        (IEEE-754 binary32 arithmetic, `as i32` casts)   *)
(*   - build_colormap, print_bitmap, render                                *)
(*   - main: initial render, Signals::new, the listener thread             *)
(***************************************************************************)
EXTENDS Integers, Sequences, FiniteSets

VARIABLES
    \* ---- colour quantizer runs (SpecColor, SpecGray)
    rgb,            \* the sample handed to rgb_to_256_color, <<r, g, b>>
    idx,            \* the index it returned, NoIdx before the call
    ovf,            \* some intermediate u8 operation overflowed or underflowed
    prev,           \* the gray sample quantized before this one, [v, idx], or NoPrev
    \* ---- one render pass after the terminal query (SpecPipe)
    input_dims,     \* image (width, height)
    fill,           \* the image's pixel colour, <<r, g, b>>
    terminal,       \* (width, height) returned by get_terminal_size
    pc,             \* position in render: "fit", "build", "draw", "done", "panic"
    new_dimensions, \* scale_image's result
    colormap,       \* build_colormap's result
    \* ---- the process: main flow, listener flow, terminal (SpecCtl, FairCtl)
    term,           \* the terminal's geometry right now
    tty,            \* whether term_size::dimensions() can answer right now
    main_ip,        \* index of main's current step in MainProgram (past it: exited)
    lst_pc,         \* listener: "none", "wait", "clear", "render", "dead"
    rpc,            \* per flow, position inside render: "none", "query", "draw", "hint"
    cur,            \* per flow, its running pass: the geometry queried, its log entry
    registered,     \* Signals::new has installed the SIGWINCH handler
    pending,        \* a SIGWINCH is pending for the iterator
    passes,         \* log of render passes, one record per call of render
    out,            \* log of what was written to standard output
    received,       \* notifications the iterator has yielded
    resizes,        \* geometry changes so far
    stale           \* the geometry changed after the latest query of it

vars == <<rgb, idx, ovf, prev, input_dims, fill, terminal, pc, new_dimensions,
          colormap, term, tty, main_ip, lst_pc, rpc, cur, registered, pending,
          passes, out, received, resizes, stale>>

colorVars == <<rgb, idx, ovf, prev>>
pipeVars == <<input_dims, fill, terminal, pc, new_dimensions, colormap>>
ctlVars == <<term, tty, main_ip, lst_pc, rpc, cur, registered, pending,
             passes, out, received, resizes, stale>>

(***************************************************************************)
(* Bounds of the model.                                                    *)
(***************************************************************************)
\* image widths and heights 1..MaxImg (plus the named sizes below)
MaxImg == 7
\* terminal columns and rows 1..MaxTerm (plus the named sizes below)
MaxTerm == 8
\* non-gray samples: channel values within SampleWidth of a multiple of 51
SampleWidth == 1
\* geometry changes in one run of the process
MaxResizes == 2

\* no index yet; no earlier sample; no geometry
NoIdx == 0 - 1

NoPrev == [v |-> 0 - 1, idx |-> 0 - 1]

NoGeom == <<0, 0>>

NoPass == [wh |-> NoGeom, pass |-> 0]

(***************************************************************************)
(* u8 arithmetic.  Rust panics on overflow in a debug build and wraps in a *)
(* release build; the value is the wrapped one and the overflow is kept.   *)
(***************************************************************************)
U8Wrap(x) == x % 256

U8Fits(x) == x >= 0 /\ x <= 255

(***************************************************************************)
(* rgb_to_256_color.  The unwrapped result of every u8 operation, in       *)
(* evaluation order, each computed from the wrapped operands.              *)
(***************************************************************************)
gray_ramp_steps(r) ==
    LET s1 == r - 8
        s2 == U8Wrap(s1) \div 247
        s3 == U8Wrap(s2) * 24
        s4 == U8Wrap(s3) + 232
    IN  <<s1, s2, s3, s4>>

\* mutant: the weights of the red and the blue channel exchanged
cube_steps_bgr(r, g, b) ==
    LET b5 == b \div 51
        t1 == 36 * b5
        t2 == 16 + U8Wrap(t1)
        g5 == g \div 51
        t3 == 6 * g5
        t4 == U8Wrap(t2) + U8Wrap(t3)
        r5 == r \div 51
        t5 == U8Wrap(t4) + r5
    IN  <<b5, t1, t2, g5, t3, t4, r5, t5>>

cube_steps(r, g, b) ==
    LET r5 == r \div 51
        t1 == 36 * r5
        t2 == 16 + U8Wrap(t1)
        g5 == g \div 51
        t3 == 6 * g5
        t4 == U8Wrap(t2) + U8Wrap(t3)
        b5 == b \div 51
        t5 == U8Wrap(t4) + b5
    IN  <<r5, t1, t2, g5, t3, t4, b5, t5>>

rgb_steps(r, g, b) ==
    IF r = g /\ g = b
    THEN IF r < 8 THEN <<16>>
         ELSE IF r > 248 THEN <<231>>
         ELSE gray_ramp_steps(r)
    ELSE cube_steps(r, g, b)

rgb_to_256_color(r, g, b) ==
    LET s == rgb_steps(r, g, b) IN U8Wrap(s[Len(s)])

rgb_overflows(r, g, b) ==
    LET s == rgb_steps(r, g, b) IN \E i \in 1..Len(s) : ~U8Fits(s[i])

(***************************************************************************)
(* IEEE-754 binary32, round to nearest even.  A positive normal number is  *)
(* [m, e] with 2^23 <= m < 2^24 and value m * 2^e.  Only positive normal   *)
(* values occur in scale_image for positive sizes.                         *)
(***************************************************************************)
RECURSIVE Pow2(_)
Pow2(k) == IF k = 0 THEN 1 ELSE 2 * Pow2(k - 1)

F32_MANTISSA_DIGITS == 24

F32Top == Pow2(F32_MANTISSA_DIGITS)

F32Low == Pow2(F32_MANTISSA_DIGITS - 1)

F32RoundUp(m, e) ==
    IF m + 1 = F32Top THEN [m |-> F32Low, e |-> e + 1] ELSE [m |-> m + 1, e |-> e]

\* m with the dropped part `rest` compared with half a unit in the last place
F32Nearest(m, e, rest, half) ==
    IF rest > half \/ (rest = half /\ m % 2 = 1)
    THEN F32RoundUp(m, e)
    ELSE [m |-> m, e |-> e]

RECURSIVE BitLen(_)
BitLen(n) == IF n = 0 THEN 0 ELSE 1 + BitLen(n \div 2)

\* `n as f32` for a positive i32
I32ToF32(n) ==
    LET k == BitLen(n) - F32_MANTISSA_DIGITS
    IN  IF k <= 0
        THEN [m |-> n * Pow2(0 - k), e |-> k]
        ELSE F32Nearest(n \div Pow2(k), k, n % Pow2(k), Pow2(k - 1))

\* bits more quotient bits of r / d (r < d), appended to the quotient q
LongDiv(r, d, q, bits) ==
    [q |-> q * Pow2(bits) + (r * Pow2(bits)) \div d, r |-> (r * Pow2(bits)) % d]

\* the quotient of two values: the leading 1, then 23 bits by long division
\* in steps of 7, 7, 7 and 2 bits
F32DivValues(a, b) ==
    LET big == a.m >= b.m
        num == IF big THEN a.m ELSE 2 * a.m
        e0  == IF big THEN a.e - b.e ELSE a.e - b.e - 1
        d1  == LongDiv(num - b.m, b.m, 1, 7)
        d2  == LongDiv(d1.r, b.m, d1.q, 7)
        d3  == LongDiv(d2.r, b.m, d2.q, 7)
        d   == LongDiv(d3.r, b.m, d3.q, F32_MANTISSA_DIGITS - 22)
    IN  F32Nearest(d.q, e0 - (F32_MANTISSA_DIGITS - 1), 2 * d.r, b.m)

\* a / b, the operands evaluated once (call by value)
F32Div(a, b) == CHOOSE q \in {F32DivValues(u, v) : u \in {a}, v \in {b}} : TRUE

\* the product of two values: 48 bits in two 24-bit halves, then rounded
F32MulValues(a, b) ==
    LET h   == Pow2(12)
        ah  == a.m \div h
        al  == a.m % h
        bh  == b.m \div h
        bl  == b.m % h
        mid == ah * bl + al * bh
        los == (mid % h) * h + al * bl
        lo  == los % F32Top
        hi  == ah * bh + mid \div h + los \div F32Top
    IN  IF hi >= F32Low
        THEN F32Nearest(hi, a.e + b.e + 24, lo, F32Low)
        ELSE F32Nearest(2 * hi + lo \div F32Low, a.e + b.e + 23,
                        lo % F32Low, F32Low \div 2)

\* a * b, the operands evaluated once (call by value)
F32Mul(a, b) == CHOOSE p \in {F32MulValues(u, v) : u \in {a}, v \in {b}} : TRUE

\* a > b
F32Gt(a, b) == a.e > b.e \/ (a.e = b.e /\ a.m > b.m)

\* mutant: the cast rounds to the nearest integer (f32::round, then the cast)
F32ToI32_round(x) ==
    IF x.e >= 0
    THEN IF x.e > 7 THEN 2147483647 ELSE x.m * Pow2(x.e)
    ELSE IF 0 - x.e > F32_MANTISSA_DIGITS THEN 0
    ELSE (x.m + Pow2(0 - x.e - 1)) \div Pow2(0 - x.e)

\* `x as i32` for x > 0: the fraction is dropped, the value saturates
F32ToI32(x) ==
    IF x.e >= 0
    THEN IF x.e > 7 THEN 2147483647 ELSE x.m * Pow2(x.e)
    ELSE IF 0 - x.e >= F32_MANTISSA_DIGITS THEN 0
    ELSE x.m \div Pow2(0 - x.e)

\* the literal 1.0
F32One == [m |-> F32Low, e |-> 0 - 23]

\* const DEFAULT_HEIGHT_RESCALE: f32 = 0.5
DEFAULT_HEIGHT_RESCALE == [m |-> F32Low, e |-> 0 - 24]

(***************************************************************************)
(* scale_image                                                             *)
(***************************************************************************)
image_ar_of(image_wh, height_scale) ==
    F32Div(F32Mul(I32ToF32(image_wh[1]), F32Div(F32One, height_scale)),
           I32ToF32(image_wh[2]))

termi_ar_of(terminal_wh) ==
    F32Div(I32ToF32(terminal_wh[1]), I32ToF32(terminal_wh[2]))

\* mutant: the comparison of the two aspects reversed
scale_image_swapped(terminal_wh, image_wh, height_scale) ==
    LET image_ar == image_ar_of(image_wh, height_scale)
        termi_ar == termi_ar_of(terminal_wh)
    IN  IF F32Gt(termi_ar, image_ar)
        THEN <<terminal_wh[1],
               F32ToI32(F32Div(I32ToF32(terminal_wh[1]), image_ar))>>
        ELSE <<F32ToI32(F32Mul(I32ToF32(terminal_wh[2]), image_ar)),
               terminal_wh[2]>>

scale_image(terminal_wh, image_wh, height_scale) ==
    LET image_ar == image_ar_of(image_wh, height_scale)
        termi_ar == termi_ar_of(terminal_wh)
    IN  IF F32Gt(image_ar, termi_ar)
        THEN <<terminal_wh[1],
               F32ToI32(F32Div(I32ToF32(terminal_wh[1]), image_ar))>>
        ELSE <<F32ToI32(F32Mul(I32ToF32(terminal_wh[2]), image_ar)),
               terminal_wh[2]>>

(***************************************************************************)
(* The decoded image and the resampling capability (opencv).  An image is  *)
(* its size and the colour of its pixels; a Mat is its size and the BGR    *)
(* sample of its pixels.  imgproc::resize fails on an empty target size    *)
(* and then leaves its output Mat as it was.                               *)
(***************************************************************************)
MatDefault == [rows |-> 0, cols |-> 0, px |-> <<0, 0, 0>>]

imgproc_resize(image, dsize) ==
    IF dsize[1] > 0 /\ dsize[2] > 0
    THEN [ok |-> TRUE,
          mat |-> [rows |-> dsize[2], cols |-> dsize[1],
                   px |-> <<image.fill[3], image.fill[2], image.fill[1]>>]]
    ELSE [ok |-> FALSE, mat |-> MatDefault]

at_2d(mat, r, c) ==
    IF r >= 0 /\ r < mat.rows /\ c >= 0 /\ c < mat.cols
    THEN [ok |-> TRUE, p |-> mat.px]
    ELSE [ok |-> FALSE, p |-> <<0, 0, 0>>]

(***************************************************************************)
(* build_colormap.  The Result of imgproc::resize is not looked at; the    *)
(* grid is read off whatever `resized` holds.  resized_ok records what     *)
(* resize answered (not part of the returned value).                       *)
(***************************************************************************)
build_colormap(image, dimensions) ==
    LET res     == imgproc_resize(image, dimensions)
        resized == res.mat
        rows    == resized.rows
        cols    == resized.cols
        array   == [r \in 1..rows |-> [c \in 1..cols |->
                      LET p == at_2d(resized, r - 1, c - 1).p
                      IN  rgb_to_256_color(p[3], p[2], p[1])]]
    IN  IF \E r \in 0..(rows - 1), c \in 0..(cols - 1) : ~at_2d(resized, r, c).ok
        THEN [ok |-> FALSE, grid |-> <<>>, resized_ok |-> res.ok]
        ELSE [ok |-> TRUE, grid |-> array, resized_ok |-> res.ok]

(***************************************************************************)
(* print_bitmap: the cells colormap[r][c] it reads (0-based), whether one  *)
(* of them is out of range (the index panics), and what it prints.         *)
(***************************************************************************)
\* mutant: the row is fetched before its cells are looped over
print_bitmap_reads_row_first(dimensions) ==
    {<<r, c>> : r \in 0..(dimensions[2] - 1), c \in 0..(dimensions[1] - 1)}
    \cup {<<r, 0>> : r \in 0..(dimensions[2] - 1)}

print_bitmap_reads(dimensions) ==
    {<<r, c>> : r \in 0..(dimensions[2] - 1), c \in 0..(dimensions[1] - 1)}

cell_exists(grid, rc) ==
    rc[1] < Len(grid) /\ rc[2] < Len(grid[rc[1] + 1])

print_bitmap_panics(grid, dimensions) ==
    \E rc \in print_bitmap_reads(dimensions) : ~cell_exists(grid, rc)

print_bitmap(grid, dimensions) ==
    [r \in 1..dimensions[2] |-> [c \in 1..dimensions[1] |-> grid[r][c]]]

(***************************************************************************)
(* Inputs.                                                                 *)
(***************************************************************************)
Channel == 0..255

ChanSamples ==
    {v \in Channel : v % 51 <= SampleWidth \/ v % 51 >= 51 - SampleWidth}

\* every gray triple, and every triple with at most one channel off the samples
ColorInputs ==
    {<<v, v, v>> : v \in Channel}
    \cup (Channel \X ChanSamples \X ChanSamples)
    \cup (ChanSamples \X Channel \X ChanSamples)
    \cup (ChanSamples \X ChanSamples \X Channel)

ImageSizes == ((1..MaxImg) \X (1..MaxImg)) \cup {<<1920, 1080>>, <<100, 100>>}

TermSizes == ((1..MaxTerm) \X (1..MaxTerm)) \cup {<<80, 24>>, <<40, 12>>, <<10, 10>>}

Fills == {<<255, 0, 0>>, <<128, 128, 128>>}

\* the terminal geometries and images of a run of the whole process
Geometries == {<<80, 24>>, <<40, 12>>, <<8, 2>>}

CtlImages == {<<1920, 1080>>, <<1, 7>>}

Flows == {"main", "listener"}

NoMap == [ok |-> FALSE, grid |-> <<>>, resized_ok |-> FALSE]

ColorIdle ==
    /\ rgb = <<0, 0, 0>> /\ idx = NoIdx /\ ovf = FALSE /\ prev = NoPrev

PipeIdle ==
    /\ terminal = <<1, 1>> /\ pc = "off"
    /\ new_dimensions = <<0, 0>> /\ colormap = NoMap

CtlIdle ==
    /\ term = <<1, 1>> /\ tty = TRUE /\ main_ip = 0 /\ lst_pc = "none"
    /\ rpc = [f \in Flows |-> "none"] /\ cur = [f \in Flows |-> NoPass]
    /\ registered = FALSE /\ pending = FALSE /\ passes = <<>> /\ out = <<>>
    /\ received = 0 /\ resizes = 0 /\ stale = FALSE

(***************************************************************************)
(* SpecColor: one call of rgb_to_256_color on any sample.                  *)
(***************************************************************************)
InitColor ==
    /\ rgb \in ColorInputs /\ idx = NoIdx /\ ovf = FALSE /\ prev = NoPrev
    /\ input_dims = <<1, 1>> /\ fill = <<0, 0, 0>>
    /\ PipeIdle /\ CtlIdle

Quantize ==
    /\ idx = NoIdx
    /\ idx' = rgb_to_256_color(rgb[1], rgb[2], rgb[3])
    /\ ovf' = rgb_overflows(rgb[1], rgb[2], rgb[3])
    /\ UNCHANGED <<rgb, prev, input_dims, fill, pipeVars, ctlVars>>

NextColor == Quantize

SpecColor == InitColor /\ [][NextColor]_vars

(***************************************************************************)
(* SpecGray: build_colormap's loop over gray pixels, one sample after the  *)
(* other, the previous sample and its index kept.                          *)
(***************************************************************************)
InitGray ==
    /\ rgb \in {<<v, v, v>> : v \in Channel}
    /\ idx = NoIdx /\ ovf = FALSE /\ prev = NoPrev
    /\ input_dims = <<1, 1>> /\ fill = <<0, 0, 0>>
    /\ PipeIdle /\ CtlIdle

NextPixel ==
    /\ idx # NoIdx
    /\ \E v \in Channel :
        /\ rgb' = <<v, v, v>>
        /\ prev' = [v |-> rgb[1], idx |-> idx]
    /\ idx' = NoIdx
    /\ ovf' = FALSE
    /\ UNCHANGED <<input_dims, fill, pipeVars, ctlVars>>

NextGray == Quantize \/ NextPixel

SpecGray == InitGray /\ [][NextGray]_vars

(***************************************************************************)
(* SpecPipe: one render pass from the answer of the terminal query on:     *)
(* scale_image, build_colormap, print_bitmap and the exit hint.            *)
(***************************************************************************)
InitPipe ==
    /\ input_dims \in ImageSizes /\ fill \in Fills /\ terminal \in TermSizes
    /\ pc = "fit" /\ new_dimensions = <<0, 0>> /\ colormap = NoMap
    /\ out = <<>>
    /\ ColorIdle
    /\ term = <<1, 1>> /\ tty = TRUE /\ main_ip = 0 /\ lst_pc = "none"
    /\ rpc = [f \in Flows |-> "none"] /\ cur = [f \in Flows |-> NoPass]
    /\ registered = FALSE /\ pending = FALSE /\ passes = <<>>
    /\ received = 0 /\ resizes = 0 /\ stale = FALSE

Fit ==
    /\ pc = "fit"
    /\ new_dimensions' = scale_image(terminal, input_dims, DEFAULT_HEIGHT_RESCALE)
    /\ pc' = "build"
    /\ UNCHANGED <<colorVars, input_dims, fill, terminal, colormap, ctlVars>>

Build ==
    /\ pc = "build"
    /\ colormap' = build_colormap([wh |-> input_dims, fill |-> fill], new_dimensions)
    /\ pc' = "draw"
    /\ UNCHANGED <<colorVars, input_dims, fill, terminal, new_dimensions, ctlVars>>

\* what render writes after build_colormap: the frame (or nothing), the hint
render_output(cm, dimensions) ==
    IF cm.ok
    THEN <<[ev |-> "frame", cells |-> print_bitmap(cm.grid, dimensions)],
           [ev |-> "hint"]>>
    ELSE <<[ev |-> "hint"]>>

Draw ==
    /\ pc = "draw"
    /\ IF colormap.ok /\ print_bitmap_panics(colormap.grid, new_dimensions)
       THEN pc' = "panic" /\ out' = out
       ELSE pc' = "done" /\ out' = out \o render_output(colormap, new_dimensions)
    /\ UNCHANGED <<colorVars, input_dims, fill, terminal, new_dimensions, colormap,
                   term, tty, main_ip, lst_pc, rpc, cur, registered, pending,
                   passes, received, resizes, stale>>

NextPipe == Fit \/ Build \/ Draw

SpecPipe == InitPipe /\ [][NextPipe]_vars

(***************************************************************************)
(* The process.  main: render, Signals::new, thread::spawn, loop { sleep } *)
(* (the sleep loop changes nothing and is no action).  SIGWINCH is ignored *)
(* by default until Signals::new installs the handler; after that a        *)
(* delivery sets the iterator's pending flag (deliveries coalesce).        *)
(***************************************************************************)
\* mutant: the listener is registered and spawned before the initial render
MainProgram_listener_first == <<"register", "spawn", "render", "sleep">>

MainProgram == <<"render", "register", "spawn", "sleep">>

MainStep ==
    IF main_ip \in 1..Len(MainProgram) THEN MainProgram[main_ip] ELSE "exited"

\* render's position on entering main's step ip
EnterStep(ip) ==
    IF ip \in 1..Len(MainProgram) /\ MainProgram[ip] = "render"
    THEN "query" ELSE "none"

\* mutant: the geometry of the first pass is kept and reused
get_terminal_size_cached ==
    IF tty
    THEN [ok |-> TRUE,
          wh |-> IF \E i \in 1..Len(passes) : passes[i].ok
                 THEN passes[CHOOSE i \in 1..Len(passes) : passes[i].ok].geom
                 ELSE term]
    ELSE [ok |-> FALSE, wh |-> NoGeom]

get_terminal_size ==
    IF tty THEN [ok |-> TRUE, wh |-> term] ELSE [ok |-> FALSE, wh |-> NoGeom]

\* mutant: the failed query is unwrapped
render_on_query_error_unwrap == "panic"

\* render's Err arm of the terminal query: eprintln, return Ok(())
render_on_query_error == "return"

\* render has returned to flow f's caller
Returned(f) ==
    IF f = "main"
    THEN /\ main_ip' = main_ip + 1
         /\ rpc' = [rpc EXCEPT !["main"] = EnterStep(main_ip + 1)]
         /\ lst_pc' = lst_pc
    ELSE /\ lst_pc' = "wait"
         /\ rpc' = [rpc EXCEPT !["listener"] = "none"]
         /\ main_ip' = main_ip

\* flow f has panicked: the thread ends; with the main thread, the process
Panicked(f) ==
    IF f = "main"
    THEN /\ main_ip' = Len(MainProgram) + 1
         /\ rpc' = [g \in Flows |-> "none"]
         /\ lst_pc' = IF lst_pc = "none" THEN "none" ELSE "dead"
    ELSE /\ lst_pc' = "dead"
         /\ rpc' = [rpc EXCEPT !["listener"] = "none"]
         /\ main_ip' = main_ip

PassRecord(f, q) ==
    [by |-> f, ok |-> q.ok, geom |-> q.wh, actual |-> term,
     dims |-> NoGeom, drawn |-> FALSE]

\* render, lines 98-104: the terminal query
RenderQuery(f) ==
    /\ rpc[f] = "query"
    /\ LET q == get_terminal_size
       IN  /\ passes' = Append(passes, PassRecord(f, q))
           /\ IF q.ok
              THEN /\ cur' = [cur EXCEPT ![f] = [wh |-> q.wh, pass |-> Len(passes) + 1]]
                   /\ rpc' = [rpc EXCEPT ![f] = "draw"]
                   /\ UNCHANGED <<main_ip, lst_pc>>
              ELSE /\ cur' = cur
                   /\ IF render_on_query_error = "return"
                      THEN Returned(f) ELSE Panicked(f)
    /\ stale' = FALSE
    /\ UNCHANGED <<colorVars, pipeVars, term, tty, registered, pending, out,
                   received, resizes>>

\* render, lines 107-114: scale_image, build_colormap, print_bitmap
RenderDraw(f) ==
    /\ rpc[f] = "draw"
    /\ \E dims \in {scale_image(cur[f].wh, input_dims, DEFAULT_HEIGHT_RESCALE)} :
       \E cm \in {build_colormap([wh |-> input_dims, fill |-> fill], dims)} :
           IF cm.ok /\ print_bitmap_panics(cm.grid, dims)
           THEN /\ Panicked(f)
                /\ UNCHANGED <<passes, out>>
           ELSE /\ passes' = [passes EXCEPT ![cur[f].pass].dims = dims,
                                            ![cur[f].pass].drawn = cm.ok]
                /\ out' = IF cm.ok
                          THEN Append(out, [ev |-> "frame", by |-> f])
                          ELSE out
                /\ rpc' = [rpc EXCEPT ![f] = "hint"]
                /\ UNCHANGED <<main_ip, lst_pc>>
    /\ UNCHANGED <<colorVars, pipeVars, term, tty, cur, registered, pending,
                   received, resizes, stale>>

\* render, lines 115-116: the exit hint, return Ok(())
RenderHint(f) ==
    /\ rpc[f] = "hint"
    /\ out' = Append(out, [ev |-> "hint", by |-> f])
    /\ Returned(f)
    /\ UNCHANGED <<colorVars, pipeVars, term, tty, cur, registered, pending,
                   passes, received, resizes, stale>>

\* Signals::new(&[SIGWINCH])
MainRegister ==
    /\ MainStep = "register"
    /\ registered' = TRUE
    /\ main_ip' = main_ip + 1
    /\ rpc' = [rpc EXCEPT !["main"] = EnterStep(main_ip + 1)]
    /\ UNCHANGED <<colorVars, pipeVars, term, tty, lst_pc, cur, pending, passes,
                   out, received, resizes, stale>>

\* std::thread::spawn
MainSpawn ==
    /\ MainStep = "spawn"
    /\ lst_pc' = "wait"
    /\ main_ip' = main_ip + 1
    /\ rpc' = [rpc EXCEPT !["main"] = EnterStep(main_ip + 1)]
    /\ UNCHANGED <<colorVars, pipeVars, term, tty, cur, registered, pending,
                   passes, out, received, resizes, stale>>

\* signals.forever() yields the pending SIGWINCH
ListenerRecv ==
    /\ lst_pc = "wait"
    /\ pending
    /\ pending' = FALSE
    /\ received' = received + 1
    /\ lst_pc' = "clear"
    /\ UNCHANGED <<colorVars, pipeVars, term, tty, main_ip, rpc, cur, registered,
                   passes, out, resizes, stale>>

\* clear_screen(), then the call of render
ListenerClear ==
    /\ lst_pc = "clear"
    /\ out' = Append(out, [ev |-> "clear", by |-> "listener"])
    /\ lst_pc' = "render"
    /\ rpc' = [rpc EXCEPT !["listener"] = "query"]
    /\ UNCHANGED <<colorVars, pipeVars, term, tty, main_ip, cur, registered,
                   pending, passes, received, resizes, stale>>

\* the user resizes the terminal; the kernel sends SIGWINCH
Resize ==
    /\ resizes < MaxResizes
    /\ MainStep # "exited"
    /\ \E g \in Geometries \ {term} : term' = g
    /\ resizes' = resizes + 1
    /\ pending' = (pending \/ registered)
    /\ stale' = (stale \/ passes # <<>>)
    /\ UNCHANGED <<colorVars, pipeVars, tty, main_ip, lst_pc, rpc, cur,
                   registered, passes, out, received>>

\* the terminal query starts or stops answering
TtyChange ==
    /\ MainStep # "exited"
    /\ tty' = ~tty
    /\ UNCHANGED <<colorVars, pipeVars, term, main_ip, lst_pc, rpc, cur,
                   registered, pending, passes, out, received, resizes, stale>>

InitCtl ==
    /\ input_dims \in CtlImages /\ fill = <<255, 0, 0>>
    /\ term \in Geometries /\ tty \in BOOLEAN
    /\ main_ip = 1 /\ lst_pc = "none"
    /\ rpc = [f \in Flows |-> IF f = "main" THEN EnterStep(1) ELSE "none"]
    /\ cur = [f \in Flows |-> NoPass]
    /\ registered = FALSE /\ pending = FALSE /\ passes = <<>> /\ out = <<>>
    /\ received = 0 /\ resizes = 0 /\ stale = FALSE
    /\ ColorIdle /\ PipeIdle

MainNext ==
    \/ RenderQuery("main") \/ RenderDraw("main") \/ RenderHint("main")
    \/ MainRegister \/ MainSpawn

ListenerNext ==
    \/ ListenerRecv \/ ListenerClear
    \/ RenderQuery("listener") \/ RenderDraw("listener") \/ RenderHint("listener")

NextCtl == MainNext \/ ListenerNext \/ Resize \/ TtyChange

SpecCtl == InitCtl /\ [][NextCtl]_vars

\* both threads are scheduled: a flow that can step eventually does
FairCtl == SpecCtl /\ WF_vars(MainNext) /\ WF_vars(ListenerNext)

(***************************************************************************)
(* Claims about rgb_to_256_color.                                          *)
(***************************************************************************)
IsGray(t) == t[1] = t[2] /\ t[2] = t[3]

\* C1: for every 8-bit triple no intermediate u8 operation overflows or
\* underflows; a gray v < 8 gives 16, a gray v > 248 gives 231, a gray v in
\* 8..248 gives an index in 232..255, and a non-gray triple gives exactly
\* 16 + 36*(r div 51) + 6*(g div 51) + (b div 51), which lies in 16..231.
C1_QuantizerContract ==
    idx # NoIdx =>
        /\ ~ovf
        /\ (IsGray(rgb) /\ rgb[1] < 8 => idx = 16)
        /\ (IsGray(rgb) /\ rgb[1] > 248 => idx = 231)
        /\ (IsGray(rgb) /\ rgb[1] >= 8 /\ rgb[1] <= 248 => idx \in 232..255)
        /\ (~IsGray(rgb) =>
                /\ idx = 16 + 36 * (rgb[1] \div 51) + 6 * (rgb[2] \div 51)
                            + (rgb[3] \div 51)
                /\ idx \in 16..231)

\* pure red has been quantized to 196
C1_Witness == rgb = <<255, 0, 0>> /\ idx = 196 /\ ~ovf

MidGray(v) == v >= 8 /\ v <= 248

\* C2: on gray (v,v,v) with 8 <= v <= 248 the index is monotonic
\* non-decreasing in v and is not one constant: 16, 128 and 240 give three
\* different indices.
C2_GrayRampSpread ==
    (idx # NoIdx /\ prev # NoPrev /\ MidGray(prev.v) /\ MidGray(rgb[1])) =>
        /\ (prev.v <= rgb[1] => prev.idx <= idx)
        /\ ({prev.v, rgb[1]} \subseteq {16, 128, 240} /\ prev.v # rgb[1]
                => prev.idx # idx)

(***************************************************************************)
(* Claims about scale_image, build_colormap and print_bitmap.              *)
(***************************************************************************)
Fitted == pc \in {"build", "draw", "done", "panic"}

Built == pc \in {"draw", "done", "panic"}

\* p / q rounded to the nearest integer
RoundDiv(p, q) == (2 * p + q) \div (2 * q)

\* the target as the specification words it: A = iw / (ih / 0.5)
SpecTarget(terminal_wh, image_wh) ==
    LET iw == image_wh[1]
        ih == image_wh[2]
        cols == terminal_wh[1]
        rows == terminal_wh[2]
    IN  IF iw * rows > 2 * ih * cols
        THEN <<cols, RoundDiv(cols * 2 * ih, iw)>>
        ELSE <<RoundDiv(rows * iw, 2 * ih), rows>>

\* C3 as stated: with A = iw / (ih / 0.5) the target is (cols, round(cols/A))
\* when A > cols/rows and (round(rows*A), rows) otherwise; image (1920,1080)
\* in terminal (80,24) gives (21,24).
C3_AsStated ==
    Fitted =>
        /\ new_dimensions = SpecTarget(terminal, input_dims)
        /\ (input_dims = <<1920, 1080>> /\ terminal = <<80, 24>>
                => new_dimensions = <<21, 24>>)

\* the truncated f32 value against the exact quotient p / q
TruncOf(x, p, q) ==
    \/ x = p \div q
    \/ (p % q = 0 /\ x = (p \div q) - 1)

\* C3 amended: with A = iw * (1/0.5) / ih = 2*iw/ih the target is
\* (cols, trunc(cols/A)) when A > cols/rows and (trunc(rows*A), rows)
\* otherwise, trunc dropping the fraction of the f32 value: the floor of the
\* exact quotient, or one less where the exact quotient is whole and the f32
\* value falls below it; (1920,1080) in (80,24) gives (80,22) and (1,7) in
\* (2,8) gives (2,6).
C3_FitTruncates ==
    Fitted =>
        LET iw == input_dims[1]
            ih == input_dims[2]
            cols == terminal[1]
            rows == terminal[2]
        IN  /\ (2 * iw * rows > cols * ih =>
                    /\ new_dimensions[1] = cols
                    /\ TruncOf(new_dimensions[2], cols * ih, 2 * iw))
            /\ (2 * iw * rows <= cols * ih =>
                    /\ new_dimensions[2] = rows
                    /\ TruncOf(new_dimensions[1], 2 * rows * iw, ih))
            /\ (input_dims = <<1920, 1080>> /\ terminal = <<80, 24>>
                    => new_dimensions = <<80, 22>>)
            /\ (input_dims = <<1, 7>> /\ terminal = <<2, 8>>
                    => new_dimensions = <<2, 6>>)

\* the 1920x1080 image has been fitted into the 80x24 terminal
C3_Witness ==
    /\ pc = "done" /\ input_dims = <<1920, 1080>> /\ terminal = <<80, 24>>
    /\ new_dimensions = <<80, 22>>

\* C4 as stated: w <= cols, h <= rows, and exactly one of w = cols, h = rows.
C4_AsStated ==
    Fitted =>
        /\ new_dimensions[1] <= terminal[1]
        /\ new_dimensions[2] <= terminal[2]
        /\ (new_dimensions[1] = terminal[1]) # (new_dimensions[2] = terminal[2])

\* C4 amended: w <= cols, h <= rows, at least one of w = cols, h = rows, and
\* both only when the image aspect 2*iw/ih equals the terminal aspect
\* cols/rows.
C4_TargetWithinTerminal ==
    Fitted =>
        /\ new_dimensions[1] >= 0 /\ new_dimensions[1] <= terminal[1]
        /\ new_dimensions[2] >= 0 /\ new_dimensions[2] <= terminal[2]
        /\ (new_dimensions[1] = terminal[1] \/ new_dimensions[2] = terminal[2])
        /\ (new_dimensions = terminal
                => 2 * input_dims[1] * terminal[2] = terminal[1] * input_dims[2])

\* a target that touches both bounds, and one that touches only one
C4_Witness ==
    /\ pc = "done" /\ input_dims = <<1, 2>> /\ terminal = <<3, 3>>
    /\ new_dimensions = <<3, 3>>

GridMatches(grid, dimensions) ==
    /\ Len(grid) = dimensions[2]
    /\ \A r \in 1..Len(grid) : Len(grid[r]) = dimensions[1]

\* C5: build_colormap on scale_image's target either returns a grid of
\* exactly target.height rows of target.width cells or reports a failure;
\* when resampling fails the outcome is the reported failure, never a
\* returned grid whose dimensions differ from the target.
C5_BuildExactOrFails ==
    Built =>
        /\ (colormap.ok => GridMatches(colormap.grid, new_dimensions))
        /\ (~colormap.resized_ok => ~colormap.ok)

\* C10: print_bitmap only reads cells that exist in the grid build_colormap
\* returned, also when the target has a zero width or height and the grid is
\* empty; the pass never ends in an index panic.
C10_PrintReadsInRange ==
    /\ pc # "panic"
    /\ (pc = "draw" /\ colormap.ok =>
            \A rc \in print_bitmap_reads(new_dimensions) :
                cell_exists(colormap.grid, rc))

\* a zero-width target: resampling failed, the grid is empty, the pass ended
C10_Witness ==
    /\ pc = "done" /\ new_dimensions[1] = 0 /\ new_dimensions[2] > 0
    /\ ~colormap.resized_ok /\ colormap.ok /\ colormap.grid = <<>>
    /\ Len(out) = 2

(***************************************************************************)
(* Claims about the process: main flow, listener flow, notifications.      *)
(***************************************************************************)
PassesBy(f) == {i \in 1..Len(passes) : passes[i].by = f}

Clears == Cardinality({i \in 1..Len(out) : out[i].ev = "clear"})

\* pass i has returned
PassOver(i) == i < Len(passes) \/ rpc[passes[i].by] = "none"

\* C6: every notification the listener receives triggers exactly one render
\* pass, the screen is cleared before that pass starts, and the pass uses the
\* geometry the terminal has when the pass queries it, after the
\* notification; after an initial render at (80,24), one notification with
\* the terminal at (40,12) gives exactly one further pass, at (40,12).
C6_OnePassPerNotification ==
    LET lp == Cardinality(PassesBy("listener"))
    IN  /\ (lst_pc = "wait" => lp = received /\ Clears = received)
        /\ (lst_pc = "clear" => lp = received - 1 /\ Clears = received - 1)
        /\ (lst_pc = "render" /\ rpc["listener"] = "query"
                => lp = received - 1 /\ Clears = received)
        /\ (lst_pc = "render" /\ rpc["listener"] # "query"
                => lp = received /\ Clears = received)
        /\ \A i \in 1..Len(passes) :
                passes[i].ok => passes[i].geom = passes[i].actual
        /\ (/\ lst_pc = "wait" /\ received = 1 /\ resizes = 1
            /\ term = <<40, 12>> /\ Len(passes) >= 2
            /\ passes[1].ok /\ passes[1].geom = <<80, 24>> /\ passes[2].ok)
            => /\ Len(passes) = 2
               /\ passes[2].by = "listener"
               /\ passes[2].geom = <<40, 12>>
               /\ passes[2].drawn

\* the resize scenario: initial pass at (80,24), one notification, one
\* further pass at (40,12), cleared first
C6_Witness ==
    /\ lst_pc = "wait" /\ received = 1 /\ resizes = 1 /\ Len(passes) = 2
    /\ passes[1].geom = <<80, 24>> /\ passes[1].drawn
    /\ passes[2].by = "listener" /\ passes[2].geom = <<40, 12>> /\ passes[2].drawn
    /\ out = <<[ev |-> "frame", by |-> "main"], [ev |-> "hint", by |-> "main"],
               [ev |-> "clear", by |-> "listener"],
               [ev |-> "frame", by |-> "listener"],
               [ev |-> "hint", by |-> "listener"]>>

\* C7: a failed terminal query in a resize-triggered pass only skips that
\* pass: the listener stays alive and goes back to waiting, and a later
\* notification whose query succeeds gets a full pass (frame and hint).
C7_QueryFailureSkipsPass ==
    /\ lst_pc # "dead"
    /\ \A i \in PassesBy("listener") :
        /\ (~passes[i].ok =>
                /\ ~passes[i].drawn
                /\ (i = Len(passes) =>
                        \/ lst_pc \in {"wait", "clear"}
                        \/ (lst_pc = "render" /\ rpc["listener"] = "query")))
        /\ (passes[i].ok /\ PassOver(i) => passes[i].drawn)

\* a skipped listener pass, then a listener pass that drew, the listener
\* waiting again
C7_Witness ==
    /\ lst_pc = "wait"
    /\ \E i, j \in PassesBy("listener") :
        /\ i < j
        /\ ~passes[i].ok
        /\ passes[j].ok /\ passes[j].drawn

\* the place of main's step s in its program
StepIndex(s) == CHOOSE i \in 1..Len(MainProgram) : MainProgram[i] = s

\* C8: at most one render pass is in progress at any moment: the initial
\* pass has completed before the listener is started, the listener handles a
\* notification to completion before it takes the next, and the output of
\* two passes is never interleaved.
C8_OnePassAtATime ==
    /\ ~(rpc["main"] # "none" /\ rpc["listener"] # "none")
    /\ (lst_pc # "none" =>
            /\ main_ip > StepIndex("render")
            /\ Len(passes) >= 1 /\ passes[1].by = "main")
    /\ (lst_pc \in {"wait", "clear"} => rpc["listener"] = "none")
    /\ \A i \in 1..Len(out) :
        /\ (out[i].ev = "frame" /\ i < Len(out)
                => out[i + 1].ev = "hint" /\ out[i + 1].by = out[i].by)
        /\ (out[i].ev = "frame" /\ i = Len(out) => rpc[out[i].by] = "hint")
        /\ (out[i].ev = "clear" /\ i < Len(out) => out[i + 1].by = "listener")

\* the listener is in the middle of a pass (frame written, hint not yet)
\* after the initial pass has written its frame and hint
C8_Witness ==
    /\ rpc["listener"] = "hint" /\ rpc["main"] = "none"
    /\ Len(out) = 4 /\ out[1].by = "main" /\ out[2].by = "main"
    /\ out[4] = [ev |-> "frame", by |-> "listener"]

\* C9: after every change of the geometry that follows the initial pass's
\* query (also one made while the initial pass is drawing, before the
\* listener is registered), a render pass that queries the geometry
\* eventually starts.
C9_EveryChangeRendered == stale ~> ~stale

====
